---- MODULE Spec2Model ----
(* Model of train.py: CIFAR-10 training with a blur deficit that a callback  *)
(* removes from the training transform pipeline at a configured epoch.       *)
EXTENDS Integers, Sequences, FiniteSets, TLC

VARIABLES
    args,             \* parsed command line: deficit_epoch, epochs_after_deficit, gamma
    t0,               \* RemoveCataractTransformCallback.t0
    train_transform,  \* train_dataset.transform.transforms
    val_transform,    \* val_dataset.transform.transforms
    current_epoch,    \* trainer.current_epoch
    start_epoch,      \* epoch the fit loop started from (0 unless resumed)
    phase,            \* position of the fit loop
    batch_idx,        \* batch index inside the running train/validation loop
    last_step,        \* which step function ran last: "none", "train", "val"
    logged,           \* metric names logged by the last step, in order
    step_return,      \* what the last step returned: "loss" or "None"
    opt_steps,        \* optimizer updates performed so far
    lr_factors,       \* factors (in hundredths) the scheduler multiplied lr by
    stdout,           \* notices printed by the callback
    hook_calls,       \* number of on_train_epoch_start invocations
    hook_epoch,       \* trainer.current_epoch seen by the last invocation
    write_epochs,     \* epochs at which train_dataset.transform was assigned
    img,              \* tensor handed to DownUpSampleTransform
    out,              \* tensor it returned
    heap,             \* tensor storages: how each one's data was produced
    blur_done         \* DownUpSampleTransform.__call__ has returned

vars == <<args, t0, train_transform, val_transform, current_epoch, start_epoch,
          phase, batch_idx, last_step, logged, step_return, opt_steps,
          lr_factors, stdout, hook_calls, hook_epoch, write_epochs,
          img, out, heap, blur_done>>

runVars == <<args, current_epoch, start_epoch, phase, batch_idx, last_step,
             logged, step_return, opt_steps, lr_factors>>

blurVars == <<img, out, heap, blur_done>>

----------------------------------------------------------------------------
(* Bounds *)

MaxDeficitEpoch == 2
MaxEpochsAfter == 2
NumTrainBatches == 2
NumValBatches == 2
MaxStartEpoch == 3
MaxHookEpoch == 2
MaxHookCalls == 3
MaxPipelineLen == 3
MaxImgDim == 33

GammaChoices == {10, 50, 97}

Channels == {1, 3}

----------------------------------------------------------------------------
(* Transform pipelines *)

Steps == {"RandomHorizontalFlip", "RandomAffine", "ToTensor",
          "DownUpSampleTransform", "Normalize"}

train_transforms ==
    <<"RandomHorizontalFlip", "RandomAffine", "ToTensor",
      "DownUpSampleTransform", "Normalize">>

test_transforms == <<"ToTensor", "Normalize">>

isinstance(t, cls) == t = cls

RECURSIVE new_transforms_first(_)
new_transforms_first(ts) ==
    IF ts = <<>> THEN <<>>
    ELSE IF isinstance(Head(ts), "DownUpSampleTransform") THEN Tail(ts)
    ELSE <<Head(ts)>> \o new_transforms_first(Tail(ts))

RECURSIVE new_transforms(_)
new_transforms(ts) ==
    IF ts = <<>> THEN <<>>
    ELSE (IF isinstance(Head(ts), "DownUpSampleTransform")
          THEN <<>> ELSE <<Head(ts)>>) \o new_transforms(Tail(ts))

Notice(t) == <<"Removed DownUpSampleTransform at epoch", t>>

----------------------------------------------------------------------------
(* RemoveCataractTransformCallback.on_train_epoch_start, called with         *)
(* trainer.current_epoch = e                                                 *)

on_train_epoch_start_ge(e) ==
    /\ IF e >= t0
       THEN /\ train_transform' = new_transforms(train_transform)
            /\ stdout' = Append(stdout, Notice(t0))
            /\ write_epochs' = Append(write_epochs, e)
       ELSE UNCHANGED <<train_transform, stdout, write_epochs>>
    /\ hook_calls' = hook_calls + 1
    /\ hook_epoch' = e
    /\ UNCHANGED <<t0, val_transform>>

on_train_epoch_start_after(e) ==
    /\ IF e = t0 + 1
       THEN /\ train_transform' = new_transforms(train_transform)
            /\ stdout' = Append(stdout, Notice(t0))
            /\ write_epochs' = Append(write_epochs, e)
       ELSE UNCHANGED <<train_transform, stdout, write_epochs>>
    /\ hook_calls' = hook_calls + 1
    /\ hook_epoch' = e
    /\ UNCHANGED <<t0, val_transform>>

on_train_epoch_start_val(e) ==
    /\ IF e = t0
       THEN /\ train_transform' = new_transforms(train_transform)
            /\ val_transform' = new_transforms(train_transform)
            /\ stdout' = Append(stdout, Notice(t0))
            /\ write_epochs' = Append(write_epochs, e)
       ELSE UNCHANGED <<train_transform, val_transform, stdout, write_epochs>>
    /\ hook_calls' = hook_calls + 1
    /\ hook_epoch' = e
    /\ UNCHANGED t0

on_train_epoch_start(e) ==
    /\ IF e = t0
       THEN /\ train_transform' = new_transforms(train_transform)
            /\ stdout' = Append(stdout, Notice(t0))
            /\ write_epochs' = Append(write_epochs, e)
       ELSE UNCHANGED <<train_transform, stdout, write_epochs>>
    /\ hook_calls' = hook_calls + 1
    /\ hook_epoch' = e
    /\ UNCHANGED <<t0, val_transform>>

----------------------------------------------------------------------------
(* DownUpSampleTransform.  A tensor is a shape and the storage holding its   *)
(* data; heap records, for every storage, the computation that filled it.    *)

DownSize == 8
UpSize == 32

unsqueeze(t, dim) == [shape |-> <<1>> \o t.shape, storage |-> t.storage]

squeeze(t, dim) ==
    [shape |-> IF t.shape[1] = 1 THEN Tail(t.shape) ELSE t.shape,
     storage |-> t.storage]

interpolate(h, t, size) ==
    [heap |-> Append(h, [op |-> "bilinear", size |-> size, src |-> t.storage]),
     t |-> [shape |-> <<t.shape[1], t.shape[2]>> \o size,
            storage |-> Len(h) + 1]]

DownUpSampleTransform_restore(h, x) ==
    LET down == interpolate(h, unsqueeze(x, 0), <<DownSize, DownSize>>)
        up == interpolate(down.heap, down.t, <<x.shape[2], x.shape[3]>>)
    IN  [heap |-> up.heap, out |-> squeeze(up.t, 0)]

DownUpSampleTransform(h, x) ==
    LET down == interpolate(h, unsqueeze(x, 0), <<DownSize, DownSize>>)
        up == interpolate(down.heap, down.t, <<UpSize, UpSize>>)
    IN  [heap |-> up.heap, out |-> squeeze(up.t, 0)]

----------------------------------------------------------------------------
(* CIFAR10Classifier *)

training_step == [logs |-> <<"train_loss", "train_acc">>, ret |-> "loss"]

validation_step_returns == [logs |-> <<"val_loss", "val_acc">>, ret |-> "loss"]

validation_step == [logs |-> <<"val_loss", "val_acc">>, ret |-> "None"]

scheduler_gamma_hparams(hparams) == hparams.gamma

scheduler_gamma(hparams) == 97

----------------------------------------------------------------------------
(* Trainer *)

max_epochs_after_only(a) == a.epochs_after_deficit

max_epochs(a) == a.deficit_epoch + a.epochs_after_deficit

EpochStart ==
    /\ phase = "ready"
    /\ current_epoch < max_epochs(args)
    /\ on_train_epoch_start(current_epoch)
    /\ phase' = "train"
    /\ batch_idx' = 0
    /\ UNCHANGED <<args, current_epoch, start_epoch, last_step, logged,
                   step_return, opt_steps, lr_factors>>
    /\ UNCHANGED blurVars

TrainingStep ==
    /\ phase = "train"
    /\ batch_idx < NumTrainBatches
    /\ last_step' = "train"
    /\ logged' = training_step.logs
    /\ step_return' = training_step.ret
    /\ opt_steps' = IF training_step.ret = "loss" THEN opt_steps + 1 ELSE opt_steps
    /\ batch_idx' = batch_idx + 1
    /\ UNCHANGED <<args, t0, train_transform, val_transform, current_epoch,
                   start_epoch, phase, lr_factors, stdout, hook_calls,
                   hook_epoch, write_epochs>>
    /\ UNCHANGED blurVars

StartValidation ==
    /\ phase = "train"
    /\ batch_idx = NumTrainBatches
    /\ phase' = "val"
    /\ batch_idx' = 0
    /\ UNCHANGED <<args, t0, train_transform, val_transform, current_epoch,
                   start_epoch, last_step, logged, step_return, opt_steps,
                   lr_factors, stdout, hook_calls, hook_epoch, write_epochs>>
    /\ UNCHANGED blurVars

ValidationStep ==
    /\ phase = "val"
    /\ batch_idx < NumValBatches
    /\ last_step' = "val"
    /\ logged' = validation_step.logs
    /\ step_return' = validation_step.ret
    /\ batch_idx' = batch_idx + 1
    /\ UNCHANGED <<args, t0, train_transform, val_transform, current_epoch,
                   start_epoch, phase, opt_steps, lr_factors, stdout,
                   hook_calls, hook_epoch, write_epochs>>
    /\ UNCHANGED blurVars

EpochEnd ==
    /\ phase = "val"
    /\ batch_idx = NumValBatches
    /\ lr_factors' = Append(lr_factors, scheduler_gamma(args))
    /\ current_epoch' = current_epoch + 1
    /\ phase' = "ready"
    /\ batch_idx' = 0
    /\ UNCHANGED <<args, t0, train_transform, val_transform, start_epoch,
                   last_step, logged, step_return, opt_steps, stdout,
                   hook_calls, hook_epoch, write_epochs>>
    /\ UNCHANGED blurVars

Finish ==
    /\ phase = "ready"
    /\ current_epoch >= max_epochs(args)
    /\ phase' = "finished"
    /\ UNCHANGED <<args, t0, train_transform, val_transform, current_epoch,
                   start_epoch, batch_idx, last_step, logged, step_return,
                   opt_steps, lr_factors, stdout, hook_calls, hook_epoch,
                   write_epochs>>
    /\ UNCHANGED blurVars

----------------------------------------------------------------------------
(* Initial states *)

ArgsSet ==
    [deficit_epoch : 0..MaxDeficitEpoch,
     epochs_after_deficit : 0..MaxEpochsAfter,
     gamma : GammaChoices]

NoTensor == [shape |-> <<>>, storage |-> 0]

RawStorage(h, w) == [op |-> "raw", size |-> <<h, w>>, src |-> 0]

InitBlurIdle ==
    /\ img = [shape |-> <<3, 32, 32>>, storage |-> 1]
    /\ out = NoTensor
    /\ heap = <<RawStorage(32, 32)>>
    /\ blur_done = FALSE

InitModule ==
    /\ train_transform = train_transforms
    /\ val_transform = test_transforms
    /\ t0 = args.deficit_epoch
    /\ phase = "ready"
    /\ batch_idx = 0
    /\ last_step = "none"
    /\ logged = <<>>
    /\ step_return = "None"
    /\ opt_steps = 0
    /\ lr_factors = <<>>
    /\ stdout = <<>>
    /\ hook_calls = 0
    /\ hook_epoch = -1
    /\ write_epochs = <<>>

Init ==
    /\ args \in ArgsSet
    /\ start_epoch = 0
    /\ current_epoch = 0
    /\ InitModule
    /\ InitBlurIdle

Next ==
    \/ EpochStart
    \/ TrainingStep
    \/ StartValidation
    \/ ValidationStep
    \/ EpochEnd
    \/ Finish

Spec == Init /\ [][Next]_vars

FairSpec == Init /\ [][Next]_vars /\ WF_vars(Next)

----------------------------------------------------------------------------
(* A run whose fit loop starts at a later epoch than 0 *)

InitResume ==
    /\ args \in ArgsSet
    /\ start_epoch \in 0..MaxStartEpoch
    /\ current_epoch = start_epoch
    /\ InitModule
    /\ InitBlurIdle

ResumeSpec == InitResume /\ [][Next]_vars

----------------------------------------------------------------------------
(* The callback on its own: any threshold, any pipeline, any epoch *)

Pipelines ==
    {train_transforms} \cup UNION {[1..n -> Steps] : n \in 0..MaxPipelineLen}

DefaultArgs == [deficit_epoch |-> 0, epochs_after_deficit |-> 0, gamma |-> 10]

InitHook ==
    /\ args = DefaultArgs
    /\ t0 \in 0..MaxHookEpoch
    /\ train_transform \in Pipelines
    /\ val_transform = test_transforms
    /\ start_epoch = 0
    /\ current_epoch = 0
    /\ phase = "ready"
    /\ batch_idx = 0
    /\ last_step = "none"
    /\ logged = <<>>
    /\ step_return = "None"
    /\ opt_steps = 0
    /\ lr_factors = <<>>
    /\ stdout = <<>>
    /\ hook_calls = 0
    /\ hook_epoch = -1
    /\ write_epochs = <<>>
    /\ InitBlurIdle

HookCall ==
    /\ hook_calls < MaxHookCalls
    /\ \E e \in 0..MaxHookEpoch :
          /\ current_epoch' = e
          /\ on_train_epoch_start(e)
    /\ UNCHANGED <<args, start_epoch, phase, batch_idx, last_step, logged,
                   step_return, opt_steps, lr_factors>>
    /\ UNCHANGED blurVars

NextHook == HookCall

HookSpec == InitHook /\ [][NextHook]_vars

----------------------------------------------------------------------------
(* The blur transform on its own: any C x H x W input *)

InitBlur ==
    /\ args = DefaultArgs
    /\ start_epoch = 0
    /\ current_epoch = 0
    /\ InitModule
    /\ \E c \in Channels, h \in 1..MaxImgDim, w \in 1..MaxImgDim :
          /\ img = [shape |-> <<c, h, w>>, storage |-> 1]
          /\ heap = <<RawStorage(h, w)>>
    /\ out = NoTensor
    /\ blur_done = FALSE

ApplyBlur ==
    /\ ~blur_done
    /\ LET r == DownUpSampleTransform(heap, img)
       IN  /\ heap' = r.heap
           /\ out' = r.out
    /\ blur_done' = TRUE
    /\ UNCHANGED img
    /\ UNCHANGED <<t0, train_transform, val_transform, stdout, hook_calls,
                   hook_epoch, write_epochs>>
    /\ UNCHANGED runVars

NextBlur == ApplyBlur

BlurSpec == InitBlur /\ [][NextBlur]_vars

----------------------------------------------------------------------------
(* Properties *)

FullPipeline ==
    <<"RandomHorizontalFlip", "RandomAffine", "ToTensor",
      "DownUpSampleTransform", "Normalize">>

NoBlurPipeline ==
    <<"RandomHorizontalFlip", "RandomAffine", "ToTensor", "Normalize">>

NotBlur(s) == s # "DownUpSampleTransform"

HasBlur(ts) == \E i \in 1..Len(ts) : ts[i] = "DownUpSampleTransform"

\* C1: every invocation of on_train_epoch_start with epoch e and threshold t0
\* replaces the training pipeline by its former steps without any blur step,
\* order preserved, and prints the notice when e = t0; when e # t0 it leaves
\* the pipeline and the output untouched.
C1_HookEffect ==
    [][hook_calls' = hook_calls + 1 =>
          IF hook_epoch' = t0
          THEN /\ train_transform' = SelectSeq(train_transform, NotBlur)
               /\ stdout' = Append(stdout,
                      <<"Removed DownUpSampleTransform at epoch", t0>>)
          ELSE /\ train_transform' = train_transform
               /\ stdout' = stdout]_vars

C1_Witness ==
    /\ hook_calls >= 2
    /\ hook_epoch # t0
    /\ Len(stdout) = 1
    /\ Len(train_transform) = 2
    /\ ~HasBlur(train_transform)

\* C2: in a run from epoch 0, while an epoch before deficit_epoch is running
\* the training pipeline is [flip, translate, to-tensor, blur, normalize];
\* while an epoch from deficit_epoch on is running, and from then until the
\* run has ended, it is [flip, translate, to-tensor, normalize].
C2_PipelineByEpoch ==
    /\ phase \in {"train", "val"} =>
          train_transform = IF current_epoch < args.deficit_epoch
                            THEN FullPipeline ELSE NoBlurPipeline
    /\ (phase \in {"ready", "finished"} /\ current_epoch > args.deficit_epoch) =>
          train_transform = NoBlurPipeline

C2_Witness ==
    /\ phase = "val"
    /\ args.deficit_epoch > 0
    /\ current_epoch > args.deficit_epoch
    /\ train_transform = NoBlurPipeline

\* C3 as stated: for any configured deficit_epoch and epochs_after_deficit a
\* finished run has assigned the training pipeline exactly once, at the
\* deficit epoch.
C3_ExactlyOnceAnyConfig ==
    phase = "finished" => write_epochs = <<args.deficit_epoch>>

\* C3 amended: the training pipeline is assigned at most once and only at the
\* deficit epoch; a finished run has assigned it exactly once when
\* epochs_after_deficit >= 1 and never when epochs_after_deficit = 0.
C3_ExactlyOnceWhenEpochsAfter ==
    /\ write_epochs \in {<<>>, <<args.deficit_epoch>>}
    /\ phase = "finished" =>
          (write_epochs = <<args.deficit_epoch>>
              <=> args.epochs_after_deficit >= 1)

C3_Witness ==
    /\ phase = "finished"
    /\ write_epochs = <<args.deficit_epoch>>
    /\ args.deficit_epoch > 0
    /\ current_epoch > args.deficit_epoch + 1

\* C4: the evaluation pipeline is [to-tensor, normalize] in every reachable
\* state, also after the callback has rewritten the training pipeline.
C4_EvalPipelineFixed ==
    val_transform = <<"ToTensor", "Normalize">>

C4_Witness ==
    /\ write_epochs # <<>>
    /\ last_step = "val"
    /\ val_transform = <<"ToTensor", "Normalize">>

\* C5: the run ends up finished for good, having started and completed
\* exactly deficit_epoch + epochs_after_deficit epochs, each with all its
\* training steps.
C5_Terminates ==
    <>[](/\ phase = "finished"
         /\ current_epoch = args.deficit_epoch + args.epochs_after_deficit
         /\ hook_calls = args.deficit_epoch + args.epochs_after_deficit
         /\ opt_steps = (args.deficit_epoch + args.epochs_after_deficit)
                            * NumTrainBatches)

C5_Witness ==
    /\ phase = "finished"
    /\ args.deficit_epoch > 0
    /\ args.epochs_after_deficit > 0
    /\ current_epoch = args.deficit_epoch + args.epochs_after_deficit

\* C6: a training step logs exactly train_loss and train_acc and returns the
\* loss, which is followed by one optimizer update; a validation step logs
\* exactly val_loss and val_acc, returns nothing and updates nothing.
C6_StepMetrics ==
    [][batch_idx' = batch_idx + 1 =>
          IF phase = "train"
          THEN /\ logged' = <<"train_loss", "train_acc">>
               /\ step_return' = "loss"
               /\ opt_steps' = opt_steps + 1
          ELSE /\ logged' = <<"val_loss", "val_acc">>
               /\ step_return' = "None"
               /\ opt_steps' = opt_steps]_vars

C6_Witness ==
    /\ last_step = "val"
    /\ logged = <<"val_loss", "val_acc">>
    /\ step_return = "None"
    /\ opt_steps >= NumTrainBatches

C8_SameShape ==
    blur_done =>
        /\ out.shape = img.shape
        /\ heap[img.storage] = RawStorage(img.shape[2], img.shape[3])

\* C8 amended: the blur transform returns a tensor of shape C x 32 x 32 in a
\* storage of its own, which is the input's shape exactly when H = W = 32,
\* and leaves its input as it was.
C8_ShapeFixed32 ==
    /\ heap[img.storage] = RawStorage(img.shape[2], img.shape[3])
    /\ blur_done =>
          /\ out.shape = <<img.shape[1], 32, 32>>
          /\ out.storage # img.storage
          /\ (out.shape = img.shape <=> (img.shape[2] = 32 /\ img.shape[3] = 32))

C8_Witness ==
    /\ blur_done
    /\ img.shape = <<3, 16, 24>>
    /\ out.shape = <<3, 32, 32>>

\* C10: when the fit loop starts at an epoch greater than the threshold the
\* callback never fires, and the blur step stays in the training pipeline
\* for the rest of the run.
C10_SkippedThresholdKeepsBlur ==
    start_epoch > t0 =>
        /\ train_transform = FullPipeline
        /\ write_epochs = <<>>
        /\ stdout = <<>>

C10_Witness ==
    /\ start_epoch > t0
    /\ phase = "finished"
    /\ current_epoch > start_epoch
    /\ HasBlur(train_transform)

====
